---- MODULE Spec2Model ----
(***************************************************************************)
(* Model of convert.py: the SDE (JSON Lines) to CSV converter.             *)
(*                                                                         *)
(* The input directory and the arguments of the invocation are drawn in    *)
(* Init; the orchestrator (convert / main) is a state machine whose loop   *)
(* body is one action per converter run; every converter's convert() is a  *)
(* pure function of the input directory and is modelled as an operator.    *)
(***************************************************************************)
EXTENDS Integers, Sequences, FiniteSets, TLC

VARIABLES
    sde,      \* input directory: [exists, files: source name -> lines]
    out,      \* output directory: [exists, files: file name -> csv lines]
    argv,     \* the invocation: [entry: "lib" | "cli", given, names]
    pc,       \* "idle" | "loop" | "returned" | "raised" | "exited"
    todo,     \* converters_to_run of the current call
    i,        \* position of the for loop in todo (1-based)
    err,      \* exception raised by the current call ("" when none)
    ran,      \* names whose converter.convert() the current call invoked
    exit,     \* exit status of the process (-1 while none)
    msg,      \* what the process printed on failure
    runs,     \* number of invocations so far
    out0      \* out as it was when the current invocation began

vars == <<sde, out, argv, pc, todo, i, err, ran, exit, msg, runs, out0>>

(***************************************************************************)
(* Bounds of the model.                                                    *)
(***************************************************************************)
MaxRuns == 2        \* invocations in a row against the same input
MaxRecs == 2        \* records per varied input source
MaxOnly == 2        \* length of the `only` list
MaxJoinRecs == 1     \* records per source where several sources are joined

(***************************************************************************)
(* Python values.  A JSON value is tagged so that None, the integer 0, the *)
(* empty string and the string "None" stay distinct.                       *)
(***************************************************************************)
None == <<"none">>
IntV(n) == <<"int", n>>
StrV(s) == <<"str", s>>
BoolV(b) == <<"bool", b>>
DictV(f) == <<"dict", f>>       \* f: a function from keys to values
ItemsV(s) == <<"items", s>>     \* a JSON object kept in document order
ListV(s) == <<"list", s>>

NoErr == ""

\* dict.get(key) and dict.get(key, default) on a decoded JSON object
Get(obj, k) == IF k \in DOMAIN obj THEN obj[k] ELSE None
GetD(obj, k, d) == IF k \in DOMAIN obj THEN obj[k] ELSE d

\* truth value of a Python object, as `or` and `if x` test it
Truthy(v) ==
    CASE v[1] = "none" -> FALSE
      [] v[1] = "int" -> v[2] # 0
      [] v[1] = "str" -> v[2] # ""
      [] v[1] = "bool" -> v[2]
      [] v[1] = "dict" -> DOMAIN v[2] # {}
      [] OTHER -> Len(v[2]) > 0

\* str(value), which is also how an f-string renders a value
PyStr(v) ==
    CASE v[1] = "none" -> "None"
      [] v[1] = "int" -> ToString(v[2])
      [] v[1] = "str" -> v[2]
      [] v[1] = "bool" -> (IF v[2] THEN "True" ELSE "False")
      [] OTHER -> "<object>"

(***************************************************************************)
(* Record Source and Row Sink (SDEConverter).                              *)
(***************************************************************************)
Garbage == <<"garbage">>        \* a line json.loads rejects
Json(obj) == <<"json", obj>>    \* a line holding one JSON object

\* SDEConverter.__init__: output_path.mkdir(parents=True, exist_ok=True)
mkdir(o) == [o EXCEPT !.exists = TRUE]

\* read_jsonl without the exists() test: open() raises on a missing file
read_jsonl_strict(filename) ==
    IF filename \notin DOMAIN sde.files
    THEN [objs |-> <<>>, err |-> "FileNotFoundError"]
    ELSE LET lines == sde.files[filename]
         IN [objs |-> [k \in 1..Len(lines) |-> lines[k][2]], err |-> NoErr]

\* read_jsonl: the objects the generator yields before it stops, and the
\* error that stops it; a missing file yields nothing and is no error.
read_jsonl(filename) ==
    IF filename \notin DOMAIN sde.files
    THEN [objs |-> <<>>, err |-> NoErr]
    ELSE LET lines == sde.files[filename]
             bad == {k \in 1..Len(lines) : lines[k] = Garbage}
             n == IF bad = {} THEN Len(lines)
                  ELSE (CHOOSE k \in bad : \A m \in bad : k <= m) - 1
         IN [objs |-> [k \in 1..n |-> lines[k][2]],
             err |-> IF bad = {} THEN NoErr ELSE "JSONDecodeError"]

\* how csv.DictWriter renders one cell: None is the empty field
CsvCell(v) == IF v = None THEN "" ELSE PyStr(v)

CsvLines(columns, rows) ==
    <<columns>> \o
    [r \in 1..Len(rows) |->
        [c \in 1..Len(columns) |-> CsvCell(Get(rows[r], columns[c]))]]

\* write_csv with open(filepath, "a"): header and rows go after the old content
write_csv_append(o, filename, columns, rows) ==
    [o EXCEPT !.files =
        [f \in DOMAIN o.files \cup {filename} |->
            IF f # filename THEN o.files[f]
            ELSE IF f \in DOMAIN o.files THEN o.files[f] \o CsvLines(columns, rows)
            ELSE CsvLines(columns, rows)]]

\* write_csv: open(filepath, "w") truncates, then header and rows
write_csv(o, filename, columns, rows) ==
    [o EXCEPT !.files =
        [f \in DOMAIN o.files \cup {filename} |->
            IF f = filename THEN CsvLines(columns, rows) ELSE o.files[f]]]

(***************************************************************************)
(* Field Extractors.                                                       *)
(***************************************************************************)
get_localized(obj, field) ==
    LET value == Get(obj, field)
    IN IF value = None THEN None
       ELSE IF value[1] = "dict" THEN Get(value[2], "en")
       ELSE value

convert_value(value) ==
    IF value = None THEN None
    ELSE IF value[1] = "bool" THEN IntV(IF value[2] THEN 1 ELSE 0)
    ELSE value

\* the first exception among those of a sequence of steps taken in order
FirstOf(errs) ==
    LET bad == {k \in 1..Len(errs) : errs[k] # NoErr}
    IN IF bad = {} THEN NoErr
       ELSE errs[CHOOSE k \in bad : \A m \in bad : k <= m]

\* obj["_key"]
KeyErr(obj) == IF "_key" \in DOMAIN obj THEN NoErr ELSE "KeyError"

\* the exception that ends a loop `for obj in self.read_jsonl(...)` whose
\* body only subscripts obj["_key"]: a record that raises, else the error
\* that ended the read
KeyLoopErr(rd) ==
    FirstOf([k \in 1..Len(rd.objs) |-> KeyErr(rd.objs[k])] \o <<rd.err>>)

\* concatenation of a sequence of sequences
RECURSIVE Flatten(_)
Flatten(ss) == IF ss = <<>> THEN <<>> ELSE Head(ss) \o Flatten(Tail(ss))

(***************************************************************************)
(* Table Converters: direct and filtered projections.                      *)
(***************************************************************************)
InvTypes_COLUMNS ==
    <<"typeID", "groupID", "typeName", "description", "mass", "volume",
      "capacity", "portionSize", "raceID", "basePrice", "published",
      "marketGroupID", "iconID", "soundID", "graphicID">>

InvTypesRow(obj) ==
    [typeID |-> Get(obj, "_key"),
     groupID |-> Get(obj, "groupID"),
     typeName |-> get_localized(obj, "name"),
     description |-> get_localized(obj, "description"),
     mass |-> Get(obj, "mass"),
     volume |-> Get(obj, "volume"),
     capacity |-> Get(obj, "capacity"),
     portionSize |-> Get(obj, "portionSize"),
     raceID |-> Get(obj, "raceID"),
     basePrice |-> Get(obj, "basePrice"),
     published |-> convert_value(Get(obj, "published")),
     marketGroupID |-> Get(obj, "marketGroupID"),
     iconID |-> Get(obj, "iconID"),
     soundID |-> Get(obj, "soundID"),
     graphicID |-> Get(obj, "graphicID")]

InvTypesConverter ==
    LET rd == read_jsonl("types.jsonl")
    IN [file |-> "invTypes.csv", columns |-> InvTypes_COLUMNS,
        err |-> rd.err,
        rows |-> [k \in 1..Len(rd.objs) |-> InvTypesRow(rd.objs[k])]]

InvGroups_COLUMNS ==
    <<"groupID", "categoryID", "groupName", "iconID", "useBasePrice",
      "anchored", "anchorable", "fittableNonSingleton", "published">>

InvGroupsRow(obj) ==
    [groupID |-> Get(obj, "_key"),
     categoryID |-> Get(obj, "categoryID"),
     groupName |-> get_localized(obj, "name"),
     iconID |-> Get(obj, "iconID"),
     useBasePrice |-> convert_value(Get(obj, "useBasePrice")),
     anchored |-> convert_value(Get(obj, "anchored")),
     anchorable |-> convert_value(Get(obj, "anchorable")),
     fittableNonSingleton |-> convert_value(Get(obj, "fittableNonSingleton")),
     published |-> convert_value(Get(obj, "published"))]

InvGroupsConverter ==
    LET rd == read_jsonl("groups.jsonl")
    IN [file |-> "invGroups.csv", columns |-> InvGroups_COLUMNS,
        err |-> rd.err,
        rows |-> [k \in 1..Len(rd.objs) |-> InvGroupsRow(rd.objs[k])]]

InvMetaGroups_COLUMNS == <<"metaGroupID", "metaGroupName", "description", "iconID">>

InvMetaGroupsRow(obj) ==
    [metaGroupID |-> Get(obj, "_key"),
     metaGroupName |-> get_localized(obj, "name"),
     description |-> get_localized(obj, "description"),
     iconID |-> Get(obj, "iconID")]

InvMetaGroupsConverter ==
    LET rd == read_jsonl("metaGroups.jsonl")
    IN [file |-> "invMetaGroups.csv", columns |-> InvMetaGroups_COLUMNS,
        err |-> rd.err,
        rows |-> [k \in 1..Len(rd.objs) |-> InvMetaGroupsRow(rd.objs[k])]]

InvMetaTypes_COLUMNS == <<"typeID", "parentTypeID", "metaGroupID">>

\* InvMetaTypesRows with the test written `if meta_group_id:`
InvMetaTypesRowsTruthy(obj) ==
    LET meta_group_id == Get(obj, "metaGroupID")
    IN IF Truthy(meta_group_id)
       THEN <<[typeID |-> Get(obj, "_key"),
               parentTypeID |-> Get(obj, "variationParentTypeID"),
               metaGroupID |-> meta_group_id]>>
       ELSE <<>>

\* the rows one type record contributes: one if it carries a metaGroupID
InvMetaTypesRows(obj) ==
    LET meta_group_id == Get(obj, "metaGroupID")
    IN IF meta_group_id # None
       THEN <<[typeID |-> Get(obj, "_key"),
               parentTypeID |-> Get(obj, "variationParentTypeID"),
               metaGroupID |-> meta_group_id]>>
       ELSE <<>>

InvMetaTypesConverter ==
    LET rd == read_jsonl("types.jsonl")
    IN [file |-> "invMetaTypes.csv", columns |-> InvMetaTypes_COLUMNS,
        err |-> rd.err,
        rows |-> Flatten([k \in 1..Len(rd.objs) |-> InvMetaTypesRows(rd.objs[k])])]

(***************************************************************************)
(* Table Converters: nested fan-out over blueprint activities.             *)
(***************************************************************************)
IndustryActivity_COLUMNS == <<"typeID", "activityID", "time">>

IndustryActivity_ACTIVITY_IDS ==
    [manufacturing |-> 1, research_time |-> 3, research_material |-> 4,
     copying |-> 5, invention |-> 8, reaction |-> 11]

\* obj.get("activities", {}).items(), in document order
ActivityItems(obj) ==
    IF "activities" \in DOMAIN obj THEN obj["activities"][2] ELSE <<>>

\* activity_data.get("materials", []) / .get("products", [])
ActivityList(activity_data, field) ==
    IF field \in DOMAIN activity_data THEN activity_data[field][2] ELSE <<>>

\* IndustryActivityRows with the record's _key taken for the blueprint id
IndustryActivityRowsByKey(obj) ==
    LET blueprint_id == Get(obj, "_key")
        activities == ActivityItems(obj)
        One(item) ==
            IF item[1] \in DOMAIN IndustryActivity_ACTIVITY_IDS
               /\ "time" \in DOMAIN item[2]
            THEN <<[typeID |-> blueprint_id,
                    activityID |-> IntV(IndustryActivity_ACTIVITY_IDS[item[1]]),
                    time |-> item[2]["time"]]>>
            ELSE <<>>
    IN Flatten([a \in 1..Len(activities) |-> One(activities[a])])

IndustryActivityRows(obj) ==
    LET blueprint_id == Get(obj, "blueprintTypeID")
        activities == ActivityItems(obj)
        One(item) ==
            IF item[1] \in DOMAIN IndustryActivity_ACTIVITY_IDS
               /\ "time" \in DOMAIN item[2]
            THEN <<[typeID |-> blueprint_id,
                    activityID |-> IntV(IndustryActivity_ACTIVITY_IDS[item[1]]),
                    time |-> item[2]["time"]]>>
            ELSE <<>>
    IN Flatten([a \in 1..Len(activities) |-> One(activities[a])])

IndustryActivityConverter ==
    LET rd == read_jsonl("blueprints.jsonl")
    IN [file |-> "industryActivity.csv", columns |-> IndustryActivity_COLUMNS,
        err |-> rd.err,
        rows |-> Flatten([k \in 1..Len(rd.objs) |-> IndustryActivityRows(rd.objs[k])])]

IndustryActivityMaterials_COLUMNS ==
    <<"typeID", "activityID", "materialTypeID", "quantity">>

IndustryActivityMaterials_ACTIVITY_IDS ==
    [manufacturing |-> 1, research_time |-> 3, research_material |-> 4,
     copying |-> 5, invention |-> 8, reaction |-> 11]

\* IndustryActivityMaterialsRows with the filter of industryActivity: an
\* activity without a time gives no material rows
IndustryActivityMaterialsRowsTimed(obj) ==
    LET blueprint_id == Get(obj, "blueprintTypeID")
        activities == ActivityItems(obj)
        One(item) ==
            IF item[1] \in DOMAIN IndustryActivityMaterials_ACTIVITY_IDS
               /\ "time" \in DOMAIN item[2]
            THEN LET materials == ActivityList(item[2], "materials")
                 IN [m \in 1..Len(materials) |->
                        [typeID |-> blueprint_id,
                         activityID |-> IntV(IndustryActivityMaterials_ACTIVITY_IDS[item[1]]),
                         materialTypeID |-> Get(materials[m], "typeID"),
                         quantity |-> Get(materials[m], "quantity")]]
            ELSE <<>>
    IN Flatten([a \in 1..Len(activities) |-> One(activities[a])])

IndustryActivityMaterialsRows(obj) ==
    LET blueprint_id == Get(obj, "blueprintTypeID")
        activities == ActivityItems(obj)
        One(item) ==
            IF item[1] \in DOMAIN IndustryActivityMaterials_ACTIVITY_IDS
            THEN LET materials == ActivityList(item[2], "materials")
                 IN [m \in 1..Len(materials) |->
                        [typeID |-> blueprint_id,
                         activityID |-> IntV(IndustryActivityMaterials_ACTIVITY_IDS[item[1]]),
                         materialTypeID |-> Get(materials[m], "typeID"),
                         quantity |-> Get(materials[m], "quantity")]]
            ELSE <<>>
    IN Flatten([a \in 1..Len(activities) |-> One(activities[a])])

IndustryActivityMaterialsConverter ==
    LET rd == read_jsonl("blueprints.jsonl")
    IN [file |-> "industryActivityMaterials.csv",
        columns |-> IndustryActivityMaterials_COLUMNS,
        err |-> rd.err,
        rows |-> Flatten([k \in 1..Len(rd.objs) |->
                            IndustryActivityMaterialsRows(rd.objs[k])])]

IndustryActivityProducts_COLUMNS ==
    <<"typeID", "activityID", "productTypeID", "quantity">>

IndustryActivityProducts_ACTIVITY_IDS ==
    [manufacturing |-> 1, research_time |-> 3, research_material |-> 4,
     copying |-> 5, invention |-> 8, reaction |-> 11]

IndustryActivityProductsRows(obj) ==
    LET blueprint_id == Get(obj, "blueprintTypeID")
        activities == ActivityItems(obj)
        One(item) ==
            IF item[1] \in DOMAIN IndustryActivityProducts_ACTIVITY_IDS
            THEN LET products == ActivityList(item[2], "products")
                 IN [p \in 1..Len(products) |->
                        [typeID |-> blueprint_id,
                         activityID |-> IntV(IndustryActivityProducts_ACTIVITY_IDS[item[1]]),
                         productTypeID |-> Get(products[p], "typeID"),
                         quantity |-> Get(products[p], "quantity")]]
            ELSE <<>>
    IN Flatten([a \in 1..Len(activities) |-> One(activities[a])])

IndustryActivityProductsConverter ==
    LET rd == read_jsonl("blueprints.jsonl")
    IN [file |-> "industryActivityProducts.csv",
        columns |-> IndustryActivityProducts_COLUMNS,
        err |-> rd.err,
        rows |-> Flatten([k \in 1..Len(rd.objs) |->
                            IndustryActivityProductsRows(rd.objs[k])])]

(***************************************************************************)
(* Table Converters: static reference tables.                              *)
(***************************************************************************)
RamActivities_COLUMNS ==
    <<"activityID", "activityName", "iconNo", "description", "published">>

ACTIVITIES ==
    <<<<IntV(0), StrV("None"), None, StrV("No activity"), IntV(1)>>,
      <<IntV(1), StrV("Manufacturing"), StrV("18_02"), None, IntV(1)>>,
      <<IntV(3), StrV("Researching Time Efficiency"), StrV("33_02"), None, IntV(1)>>,
      <<IntV(4), StrV("Researching Material Efficiency"), StrV("33_02"), None, IntV(1)>>,
      <<IntV(5), StrV("Copying"), StrV("33_02"), None, IntV(1)>>,
      <<IntV(8), StrV("Invention"), StrV("33_02"), None, IntV(1)>>,
      <<IntV(11), StrV("Reactions"), StrV("18_02"), None, IntV(1)>>>>

RamActivitiesConverter ==
    [file |-> "ramActivities.csv", columns |-> RamActivities_COLUMNS,
     err |-> NoErr,
     rows |-> [k \in 1..Len(ACTIVITIES) |->
                 [activityID |-> ACTIVITIES[k][1],
                  activityName |-> ACTIVITIES[k][2],
                  iconNo |-> ACTIVITIES[k][3],
                  description |-> ACTIVITIES[k][4],
                  published |-> ACTIVITIES[k][5]]]]

InvFlags_COLUMNS == <<"flagID", "flagName", "flagText", "orderID">>

\* (flagID, flagName, flagText, orderID), verbatim and in source order
FLAGS ==
    <<
      <<0, "None", "None", 0>>,
      <<1, "Wallet", "Wallet", 10>>,
      <<2, "Offices", "OfficeFolder", 0>>,
      <<3, "Wardrobe", "Wardrobe", 0>>,
      <<4, "Hangar", "Hangar", 30>>,
      <<5, "Cargo", "Cargo", 3000>>,
      <<6, "OfficeImpound", "Impounded Offices", 0>>,
      <<7, "Skill", "Skill", 15>>,
      <<8, "Reward", "Reward", 17>>,
      <<11, "LoSlot0", "Low power slot 1", 0>>,
      <<12, "LoSlot1", "Low power slot 2", 0>>,
      <<13, "LoSlot2", "Low power slot 3", 0>>,
      <<14, "LoSlot3", "Low power slot 4", 0>>,
      <<15, "LoSlot4", "Low power slot 5", 0>>,
      <<16, "LoSlot5", "Low power slot 6", 0>>,
      <<17, "LoSlot6", "Low power slot 7", 0>>,
      <<18, "LoSlot7", "Low power slot 8", 0>>,
      <<19, "MedSlot0", "Medium power slot 1", 0>>,
      <<20, "MedSlot1", "Medium power slot 2", 0>>,
      <<21, "MedSlot2", "Medium power slot 3", 0>>,
      <<22, "MedSlot3", "Medium power slot 4", 0>>,
      <<23, "MedSlot4", "Medium power slot 5", 0>>,
      <<24, "MedSlot5", "Medium power slot 6", 0>>,
      <<25, "MedSlot6", "Medium power slot 7", 0>>,
      <<26, "MedSlot7", "Medium power slot 8", 0>>,
      <<27, "HiSlot0", "High power slot 1", 0>>,
      <<28, "HiSlot1", "High power slot 2", 0>>,
      <<29, "HiSlot2", "High power slot 3", 0>>,
      <<30, "HiSlot3", "High power slot 4", 0>>,
      <<31, "HiSlot4", "High power slot 5", 0>>,
      <<32, "HiSlot5", "High power slot 6", 0>>,
      <<33, "HiSlot6", "High power slot 7", 0>>,
      <<34, "HiSlot7", "High power slot 8", 0>>,
      <<35, "Fixed Slot", "Fixed Slot", 0>>,
      <<36, "AssetSafety", "Asset Safety", 0>>,
      <<56, "Capsule", "Capsule", 0>>,
      <<57, "Pilot", "Pilot", 0>>,
      <<61, "Skill In Training", "Skill in training", 0>>,
      <<62, "CorpMarket", "Corporation Market Deliveries / Returns", 0>>,
      <<63, "Locked", "Locked item, can not be moved unless unlocked", 0>>,
      <<64, "Unlocked", "Unlocked item, can be moved", 0>>,
      <<70, "Office Slot 1", "Office slot 1", 0>>,
      <<71, "Office Slot 2", "Office slot 2", 0>>,
      <<72, "Office Slot 3", "Office slot 3", 0>>,
      <<73, "Office Slot 4", "Office slot 4", 0>>,
      <<74, "Office Slot 5", "Office slot 5", 0>>,
      <<75, "Office Slot 6", "Office slot 6", 0>>,
      <<76, "Office Slot 7", "Office slot 7", 0>>,
      <<77, "Office Slot 8", "Office slot 8", 0>>,
      <<78, "Office Slot 9", "Office slot 9", 0>>,
      <<79, "Office Slot 10", "Office slot 10", 0>>,
      <<80, "Office Slot 11", "Office slot 11", 0>>,
      <<81, "Office Slot 12", "Office slot 12", 0>>,
      <<82, "Office Slot 13", "Office slot 13", 0>>,
      <<83, "Office Slot 14", "Office slot 14", 0>>,
      <<84, "Office Slot 15", "Office slot 15", 0>>,
      <<85, "Office Slot 16", "Office slot 16", 0>>,
      <<86, "Bonus", "Bonus", 0>>,
      <<87, "DroneBay", "Drone Bay", 0>>,
      <<88, "Booster", "Booster", 0>>,
      <<89, "Implant", "Implant", 0>>,
      <<90, "ShipHangar", "Ship Hangar", 0>>,
      <<91, "ShipOffline", "Ship Offline", 0>>,
      <<92, "RigSlot0", "Rig power slot 1", 0>>,
      <<93, "RigSlot1", "Rig power slot 2", 0>>,
      <<94, "RigSlot2", "Rig power slot 3", 0>>,
      <<95, "RigSlot3", "Rig power slot 4", 0>>,
      <<96, "RigSlot4", "Rig power slot 5", 0>>,
      <<97, "RigSlot5", "Rig power slot 6", 0>>,
      <<98, "RigSlot6", "Rig power slot 7", 0>>,
      <<99, "RigSlot7", "Rig power slot 8", 0>>,
      <<115, "CorpSAG1", "Corp Security Access Group 1", 0>>,
      <<116, "CorpSAG2", "Corp Security Access Group 2", 0>>,
      <<117, "CorpSAG3", "Corp Security Access Group 3", 0>>,
      <<118, "CorpSAG4", "Corp Security Access Group 4", 0>>,
      <<119, "CorpSAG5", "Corp Security Access Group 5", 0>>,
      <<120, "CorpSAG6", "Corp Security Access Group 6", 0>>,
      <<121, "CorpSAG7", "Corp Security Access Group 7", 0>>,
      <<122, "SecondaryStorage", "Secondary Storage", 0>>,
      <<125, "SubSystem0", "Sub system slot 0", 0>>,
      <<126, "SubSystem1", "Sub system slot 1", 0>>,
      <<127, "SubSystem2", "Sub system slot 2", 0>>,
      <<128, "SubSystem3", "Sub system slot 3", 0>>,
      <<129, "SubSystem4", "Sub system slot 4", 0>>,
      <<130, "SubSystem5", "Sub system slot 5", 0>>,
      <<131, "SubSystem6", "Sub system slot 6", 0>>,
      <<132, "SubSystem7", "Sub system slot 7", 0>>,
      <<133, "SpecializedFuelBay", "Specialized Fuel Bay", 0>>,
      <<134, "SpecializedAsteroidHold", "Specialized Asteroid Hold", 0>>,
      <<135, "SpecializedGasHold", "Specialized Gas Hold", 0>>,
      <<136, "SpecializedMineralHold", "Specialized Mineral Hold", 0>>,
      <<137, "SpecializedSalvageHold", "Specialized Salvage Hold", 0>>,
      <<138, "SpecializedShipHold", "Specialized Ship Hold", 0>>,
      <<139, "SpecializedSmallShipHold", "Specialized Small Ship Hold", 0>>,
      <<140, "SpecializedMediumShipHold", "Specialized Medium Ship Hold", 0>>,
      <<141, "SpecializedLargeShipHold", "Specialized Large Ship Hold", 0>>,
      <<142, "SpecializedIndustrialShipHold", "Specialized Industrial Ship Hold", 0>>,
      <<143, "SpecializedAmmoHold", "Specialized Ammo Hold", 0>>,
      <<144, "StructureActive", "Structure Active", 0>>,
      <<145, "StructureInactive", "Structure Inactive", 0>>,
      <<146, "JunkyardReprocessed", "This item was put into a junkyard through reprocession.", 0>>,
      <<147, "JunkyardTrashed", "This item was put into a junkyard through being trashed by its owner.", 0>>,
      <<148, "SpecializedCommandCenterHold", "Specialized Command Center Hold", 0>>,
      <<149, "SpecializedPlanetaryCommoditiesHold", "Specialized Planetary Commodities Hold", 0>>,
      <<150, "PlanetSurface", "Planet Surface", 0>>,
      <<151, "SpecializedMaterialBay", "Specialized Material Bay", 0>>,
      <<152, "DustCharacterDatabank", "Dust Character Databank", 0>>,
      <<153, "DustCharacterBattle", "Dust Character Battle", 0>>,
      <<154, "QuafeBay", "Quafe Bay", 0>>,
      <<155, "FleetHangar", "Fleet Hangar", 0>>,
      <<156, "HiddenModifiers", "Hidden Modifiers", 0>>,
      <<157, "StructureOffline", "Structure Offline", 0>>,
      <<158, "FighterBay", "Fighter Bay", 0>>,
      <<159, "FighterTube0", "Fighter Tube 0", 0>>,
      <<160, "FighterTube1", "Fighter Tube 1", 0>>,
      <<161, "FighterTube2", "Fighter Tube 2", 0>>,
      <<162, "FighterTube3", "Fighter Tube 3", 0>>,
      <<163, "FighterTube4", "Fighter Tube 4", 0>>,
      <<164, "StructureServiceSlot0", "Structure service slot 1", 0>>,
      <<165, "StructureServiceSlot1", "Structure service slot 2", 0>>,
      <<166, "StructureServiceSlot2", "Structure service slot 3", 0>>,
      <<167, "StructureServiceSlot3", "Structure service slot 4", 0>>,
      <<168, "StructureServiceSlot4", "Structure service slot 5", 0>>,
      <<169, "StructureServiceSlot5", "Structure service slot 6", 0>>,
      <<170, "StructureServiceSlot6", "Structure service slot 7", 0>>,
      <<171, "StructureServiceSlot7", "Structure service slot 8", 0>>,
      <<172, "StructureFuel", "Structure Fuel", 0>>,
      <<173, "Deliveries", "Deliveries", 0>>,
      <<174, "CrateLoot", "Crate Loot", 0>>,
      <<176, "BoosterBay", "Booster Hold", 0>>,
      <<177, "SubsystemBay", "Subsystem Hold", 0>>,
      <<178, "Raffles", "Raffles Hangar", 0>>,
      <<179, "FrigateEscapeBay", "Frigate escape bay Hangar", 0>>,
      <<180, "StructureDeedBay", "Structure Deed Bay", 0>>,
      <<181, "SpecializedIceHold", "Specialized Ice Hold", 0>>,
      <<182, "SpecializedAsteroidHold", "Specialized Asteroid Hold", 0>>,
      <<183, "MobileDepot", "Mobile Depot", 0>>,
      <<184, "CorpProjectsHangar", "Corporation Projects Hangar ", 0>>,
      <<185, "ColonyResourcesHold", "Infrastructure Hold", 0>>,
      <<186, "MoonMaterialBay", "Moon Material Bay", 0>>,
      <<187, "CapsuleerDeliveries", "Capsuleer Deliveries", 0>>>>

\* InvFlagsRows over the table with repeated names dropped
InvFlagsRowsDedup(flags) ==
    LET keep == {k \in 1..Len(flags) : \A m \in 1..(k - 1) : flags[m][2] # flags[k][2]}
        Nth(n) == CHOOSE k \in keep : Cardinality({m \in keep : m < k}) = n - 1
    IN [n \in 1..Cardinality(keep) |->
           [flagID |-> IntV(flags[Nth(n)][1]),
            flagName |-> StrV(flags[Nth(n)][2]),
            flagText |-> StrV(flags[Nth(n)][3]),
            orderID |-> IntV(flags[Nth(n)][4])]]

InvFlagsRows(flags) ==
    [k \in 1..Len(flags) |->
        [flagID |-> IntV(flags[k][1]),
         flagName |-> StrV(flags[k][2]),
         flagText |-> StrV(flags[k][3]),
         orderID |-> IntV(flags[k][4])]]

InvFlagsConverter ==
    [file |-> "invFlags.csv", columns |-> InvFlags_COLUMNS,
     err |-> NoErr,
     rows |-> InvFlagsRows(FLAGS)]

(***************************************************************************)
(* Table Converters: multi-source synthesis.                               *)
(***************************************************************************)
InvUniqueNames_COLUMNS == <<"itemID", "itemName", "groupID">>

InvUniqueNamesRow(obj) ==
    [itemID |-> Get(obj, "_key"),
     itemName |-> get_localized(obj, "name"),
     groupID |-> IntV(1)]

InvUniqueNamesConverter ==
    LET rd == read_jsonl("npcCharacters.jsonl")
    IN [file |-> "invUniqueNames.csv", columns |-> InvUniqueNames_COLUMNS,
        err |-> rd.err,
        rows |-> [k \in 1..Len(rd.objs) |-> InvUniqueNamesRow(rd.objs[k])]]

InvNames_COLUMNS == <<"itemID", "itemName">>

ROMAN ==
    <<"", "I", "II", "III", "IV", "V", "VI", "VII", "VIII", "IX", "X",
      "XI", "XII", "XIII", "XIV", "XV", "XVI", "XVII", "XVIII", "XIX", "XX">>

\* list[n] as Python indexes it: 0-based, negative n counts from the end
PyIndex(list, n) == IF n >= 0 THEN list[n + 1] ELSE list[Len(list) + n + 1]
PyIndexErr(list, n) ==
    IF n >= Len(list) \/ n < 0 - Len(list) THEN "IndexError" ELSE NoErr

\* ROMAN[celestial_idx] if celestial_idx < len(ROMAN) else str(celestial_idx)
RomanText(celestial_idx) ==
    IF celestial_idx < Len(ROMAN) THEN PyIndex(ROMAN, celestial_idx)
    ELSE ToString(celestial_idx)

RomanErr(celestial_idx) ==
    IF celestial_idx[1] # "int" THEN "TypeError"
    ELSE IF celestial_idx[2] < Len(ROMAN) THEN PyIndexErr(ROMAN, celestial_idx[2])
    ELSE NoErr

\* a dict filled by a loop: the last record with a key wins
LastWith(objs, key) ==
    CHOOSE k \in 1..Len(objs) :
        /\ objs[k]["_key"] = key
        /\ \A m \in 1..Len(objs) : objs[m]["_key"] = key => m <= k

\* solar_systems: id -> name
SolarSystems(objs) ==
    [key \in {objs[k]["_key"] : k \in 1..Len(objs)} |->
        get_localized(objs[LastWith(objs, key)], "name")]

_get_solar_from_orbit(obj, solar_systems) ==
    LET orbit_id == Get(obj, "orbitID")
    IN IF Truthy(orbit_id) /\ orbit_id \in DOMAIN solar_systems
       THEN orbit_id ELSE None

\* solar_id of a planet: obj.get("solarSystemID") or _get_solar_from_orbit
PlanetSolarID(obj, solar_systems) ==
    IF Truthy(Get(obj, "solarSystemID")) THEN Get(obj, "solarSystemID")
    ELSE _get_solar_from_orbit(obj, solar_systems)

\* planets: id -> (solarSystemID, celestialIndex)
Planets(objs, solar_systems) ==
    [key \in {objs[k]["_key"] : k \in 1..Len(objs)} |->
        LET obj == objs[LastWith(objs, key)]
        IN <<PlanetSolarID(obj, solar_systems),
             GetD(obj, "celestialIndex", IntV(0))>>]

\* solar_systems.get(solar_id, "Unknown")
SysName(solar_systems, solar_id) ==
    IF solar_id \in DOMAIN solar_systems THEN solar_systems[solar_id]
    ELSE StrV("Unknown")

NameRow(id, text) == [itemID |-> id, itemName |-> text]

SolarNameRow(obj) == NameRow(obj["_key"], get_localized(obj, "name"))

PlanetNameRow(obj, solar_systems) ==
    LET solar_id == PlanetSolarID(obj, solar_systems)
        celestial_idx == GetD(obj, "celestialIndex", IntV(0))
        sys_name == SysName(solar_systems, solar_id)
        roman == RomanText(celestial_idx[2])
    IN NameRow(obj["_key"], StrV(PyStr(sys_name) \o " " \o roman))

PlanetErr(obj) ==
    IF KeyErr(obj) # NoErr THEN KeyErr(obj)
    ELSE RomanErr(GetD(obj, "celestialIndex", IntV(0)))

MoonNameRow(obj, solar_systems, planets) ==
    LET orbit_id == Get(obj, "orbitID")
        orbit_idx == GetD(obj, "orbitIndex", IntV(1))
        sys_name == SysName(solar_systems, Get(obj, "solarSystemID"))
    IN IF orbit_id \in DOMAIN planets
       THEN NameRow(obj["_key"],
                StrV(PyStr(sys_name) \o " " \o RomanText(planets[orbit_id][2][2])
                     \o " - Moon " \o PyStr(orbit_idx)))
       ELSE NameRow(obj["_key"],
                StrV(PyStr(sys_name) \o " - Moon " \o PyStr(orbit_idx)))

StarNameRow(obj, solar_systems) ==
    NameRow(obj["_key"],
        StrV(PyStr(SysName(solar_systems, Get(obj, "solarSystemID"))) \o " - Star"))

\* the exception that ends the planet loop
PlanetLoopErr(rd) ==
    FirstOf([k \in 1..Len(rd.objs) |-> PlanetErr(rd.objs[k])] \o <<rd.err>>)

VerbatimSources ==
    <<"mapRegions.jsonl", "mapConstellations.jsonl", "npcCorporations.jsonl",
      "factions.jsonl", "npcCharacters.jsonl">>

InvNamesConverter ==
    LET systems == read_jsonl("mapSolarSystems.jsonl")
        planetRd == read_jsonl("mapPlanets.jsonl")
        moons == read_jsonl("mapMoons.jsonl")
        stars == read_jsonl("mapStars.jsonl")
        e == FirstOf(<<KeyLoopErr(systems), PlanetLoopErr(planetRd),
                       KeyLoopErr(moons), KeyLoopErr(stars)>>
                     \o [s \in 1..Len(VerbatimSources) |->
                            KeyLoopErr(read_jsonl(VerbatimSources[s]))])
        solar_systems == SolarSystems(systems.objs)
        planets == Planets(planetRd.objs, solar_systems)
        Verbatim(src) ==
            LET rd == read_jsonl(src)
            IN [k \in 1..Len(rd.objs) |-> SolarNameRow(rd.objs[k])]
    IN [file |-> "invNames.csv", columns |-> InvNames_COLUMNS,
        err |-> e,
        rows |-> IF e # NoErr THEN <<>> ELSE
            [k \in 1..Len(systems.objs) |-> SolarNameRow(systems.objs[k])]
            \o [k \in 1..Len(planetRd.objs) |->
                    PlanetNameRow(planetRd.objs[k], solar_systems)]
            \o [k \in 1..Len(moons.objs) |->
                    MoonNameRow(moons.objs[k], solar_systems, planets)]
            \o [k \in 1..Len(stars.objs) |-> StarNameRow(stars.objs[k], solar_systems)]
            \o Flatten([s \in 1..Len(VerbatimSources) |-> Verbatim(VerbatimSources[s])])]

InvItems_COLUMNS ==
    <<"itemID", "typeID", "ownerID", "locationID", "flagID", "quantity">>

ItemRow(id, type_id, owner_id, location_id) ==
    [itemID |-> id, typeID |-> type_id, ownerID |-> owner_id,
     locationID |-> location_id, flagID |-> IntV(0), quantity |-> IntV(-1)]

SolarItemRow(obj) ==
    ItemRow(obj["_key"], IntV(5), IntV(1), GetD(obj, "regionID", IntV(0)))

\* planets and moons
CelestialItemRow(obj) ==
    ItemRow(obj["_key"], GetD(obj, "typeID", IntV(0)), IntV(1),
            GetD(obj, "solarSystemID", IntV(0)))

\* StationItemRow with the owner of planets and moons
StationItemRowOwnerOne(obj) ==
    ItemRow(obj["_key"], GetD(obj, "typeID", IntV(0)), IntV(1),
            GetD(obj, "solarSystemID", IntV(0)))

StationItemRow(obj) ==
    ItemRow(obj["_key"], GetD(obj, "typeID", IntV(0)),
            GetD(obj, "ownerID", IntV(0)), GetD(obj, "solarSystemID", IntV(0)))

InvItemsConverter ==
    LET systems == read_jsonl("mapSolarSystems.jsonl")
        planetRd == read_jsonl("mapPlanets.jsonl")
        moons == read_jsonl("mapMoons.jsonl")
        stations == read_jsonl("npcStations.jsonl")
        e == FirstOf(<<KeyLoopErr(systems), KeyLoopErr(planetRd),
                       KeyLoopErr(moons), KeyLoopErr(stations)>>)
    IN [file |-> "invItems.csv", columns |-> InvItems_COLUMNS,
        err |-> e,
        rows |-> IF e # NoErr THEN <<>> ELSE
            [k \in 1..Len(systems.objs) |-> SolarItemRow(systems.objs[k])]
            \o [k \in 1..Len(planetRd.objs) |-> CelestialItemRow(planetRd.objs[k])]
            \o [k \in 1..Len(moons.objs) |-> CelestialItemRow(moons.objs[k])]
            \o [k \in 1..Len(stations.objs) |-> StationItemRow(stations.objs[k])]]

(***************************************************************************)
(* Converter Registry.                                                     *)
(***************************************************************************)
\* list(CONVERTERS.keys()): the registry in declaration order
CONVERTER_NAMES ==
    <<"invTypes", "invGroups", "invMetaGroups", "invMetaTypes",
      "industryActivity", "industryActivityMaterials",
      "industryActivityProducts", "ramActivities", "invFlags",
      "invUniqueNames", "invNames", "invItems">>

Registered == {CONVERTER_NAMES[k] : k \in 1..Len(CONVERTER_NAMES)}

\* CONVERTERS[name](sde_path, output_path).convert(), up to write_csv
CONVERTERS(name) ==
    CASE name = "invTypes" -> InvTypesConverter
      [] name = "invGroups" -> InvGroupsConverter
      [] name = "invMetaGroups" -> InvMetaGroupsConverter
      [] name = "invMetaTypes" -> InvMetaTypesConverter
      [] name = "industryActivity" -> IndustryActivityConverter
      [] name = "industryActivityMaterials" -> IndustryActivityMaterialsConverter
      [] name = "industryActivityProducts" -> IndustryActivityProductsConverter
      [] name = "ramActivities" -> RamActivitiesConverter
      [] name = "invFlags" -> InvFlagsConverter
      [] name = "invUniqueNames" -> InvUniqueNamesConverter
      [] name = "invNames" -> InvNamesConverter
      [] name = "invItems" -> InvItemsConverter

(***************************************************************************)
(* Orchestrator: convert() and the command-line entry point main().        *)
(***************************************************************************)
\* `only if only else list(CONVERTERS.keys())`
ConvertersToRun(a) ==
    IF a.given /\ Len(a.names) > 0 THEN a.names ELSE CONVERTER_NAMES

\* the process (or the caller) is between two invocations
CanInvoke(entry) ==
    /\ argv.entry = entry
    /\ runs < MaxRuns
    /\ \/ pc = "idle"
       \/ entry = "lib" /\ pc \in {"returned", "raised"}
       \/ entry = "cli" /\ pc = "exited"

\* convert() without the test of sde_path.exists()
EnterConvertUnchecked ==
    /\ runs' = runs + 1
    /\ out0' = out
    /\ ran' = <<>>
    /\ i' = 1
    /\ exit' = -1
    /\ msg' = ""
    /\ pc' = "loop"
    /\ err' = NoErr
    /\ todo' = ConvertersToRun(argv)
    /\ UNCHANGED <<sde, out, argv>>

\* convert(), from its first line to the head of the for loop
EnterConvert ==
    /\ runs' = runs + 1
    /\ out0' = out
    /\ ran' = <<>>
    /\ i' = 1
    /\ exit' = -1
    /\ msg' = ""
    /\ IF ~sde.exists
       THEN /\ pc' = "raised"
            /\ err' = "FileNotFoundError"
            /\ todo' = <<>>
       ELSE /\ pc' = "loop"
            /\ err' = NoErr
            /\ todo' = ConvertersToRun(argv)
    /\ UNCHANGED <<sde, out, argv>>

\* a library caller calls convert(sde_path, output_path, only=...)
convert_enter ==
    /\ CanInvoke("lib")
    /\ EnterConvert

\* argparse: --only takes one or more names out of CONVERTERS.keys()
ArgparseRejects(a) ==
    a.given /\ (Len(a.names) = 0
                \/ \E k \in 1..Len(a.names) : a.names[k] \notin Registered)

\* main(): parse_args(), then convert(...) inside the try block
main_enter ==
    /\ CanInvoke("cli")
    /\ IF ArgparseRejects(argv)
       THEN /\ pc' = "exited"
            /\ exit' = 2
            /\ msg' = "usage"
            /\ runs' = runs + 1
            /\ out0' = out
            /\ ran' = <<>>
            /\ i' = 1
            /\ err' = NoErr
            /\ todo' = <<>>
            /\ UNCHANGED <<sde, out, argv>>
       ELSE EnterConvert

\* convert_step with a converter that opens its output file and writes the
\* header before it reads its sources: a failed read leaves the header behind
convert_step_streaming ==
    /\ pc = "loop"
    /\ i <= Len(todo)
    /\ todo[i] \in Registered
    /\ LET c == CONVERTERS(todo[i])
       IN IF c.err # NoErr
          THEN /\ out' = write_csv(mkdir(out), c.file, c.columns, <<>>)
               /\ pc' = "raised"
               /\ err' = c.err
               /\ i' = i
          ELSE /\ out' = write_csv(mkdir(out), c.file, c.columns, c.rows)
               /\ pc' = "loop"
               /\ err' = NoErr
               /\ i' = i + 1
    /\ ran' = Append(ran, todo[i])
    /\ UNCHANGED <<sde, argv, todo, exit, msg, runs, out0>>

\* one iteration of the for loop over a registered name: instantiate the
\* converter (which creates the output directory) and run its convert()
convert_step ==
    /\ pc = "loop"
    /\ i <= Len(todo)
    /\ todo[i] \in Registered
    /\ LET c == CONVERTERS(todo[i])
       IN IF c.err # NoErr
          THEN /\ out' = mkdir(out)
               /\ pc' = "raised"
               /\ err' = c.err
               /\ i' = i
          ELSE /\ out' = write_csv(mkdir(out), c.file, c.columns, c.rows)
               /\ pc' = "loop"
               /\ err' = NoErr
               /\ i' = i + 1
    /\ ran' = Append(ran, todo[i])
    /\ UNCHANGED <<sde, argv, todo, exit, msg, runs, out0>>

\* one iteration of the for loop over a name that is not in CONVERTERS
convert_unknown ==
    /\ pc = "loop"
    /\ i <= Len(todo)
    /\ todo[i] \notin Registered
    /\ pc' = "raised"
    /\ err' = "ValueError"
    /\ UNCHANGED <<sde, out, argv, todo, i, ran, exit, msg, runs, out0>>

\* the for loop is exhausted: convert() returns
convert_return ==
    /\ pc = "loop"
    /\ i > Len(todo)
    /\ pc' = "returned"
    /\ UNCHANGED <<sde, out, argv, todo, i, err, ran, exit, msg, runs, out0>>

\* main() with the sys.exit(1) of the except block left out
ExitStatusNoExit(p, e) ==
    IF p = "returned" \/ e = "FileNotFoundError" THEN 0 ELSE 1

\* the status main() ends with: 0 after convert() returns, 1 from sys.exit(1)
\* in the except block, 1 from the interpreter for an uncaught exception
ExitStatus(p, e) ==
    IF p = "returned" THEN 0 ELSE 1

\* main() after convert(): only FileNotFoundError is caught (sys.exit(1));
\* any other exception leaves the interpreter with a traceback and status 1
main_exit ==
    /\ argv.entry = "cli"
    /\ pc \in {"returned", "raised"}
    /\ pc' = "exited"
    /\ exit' = ExitStatus(pc, err)
    /\ msg' = IF pc = "returned" THEN ""
              ELSE IF err = "FileNotFoundError" THEN "Error"
              ELSE "Traceback"
    /\ UNCHANGED <<sde, out, argv, todo, i, err, ran, runs, out0>>

Next ==
    \/ convert_enter
    \/ main_enter
    \/ convert_step
    \/ convert_unknown
    \/ convert_return
    \/ main_exit

(***************************************************************************)
(* Inputs.                                                                 *)
(***************************************************************************)
SeqsUpTo(S, n) == UNION {[1..k -> S] : k \in 0..n}

Sources ==
    {"types.jsonl", "groups.jsonl", "metaGroups.jsonl", "blueprints.jsonl",
     "npcCharacters.jsonl", "mapSolarSystems.jsonl", "mapPlanets.jsonl",
     "mapMoons.jsonl", "mapStars.jsonl", "mapRegions.jsonl",
     "mapConstellations.jsonl", "npcCorporations.jsonl", "factions.jsonl",
     "npcStations.jsonl"}

OutFiles ==
    {"invTypes.csv", "invGroups.csv", "invMetaGroups.csv", "invMetaTypes.csv",
     "industryActivity.csv", "industryActivityMaterials.csv",
     "industryActivityProducts.csv", "ramActivities.csv", "invFlags.csv",
     "invUniqueNames.csv", "invNames.csv", "invItems.csv"}

En(s) == DictV([en |-> StrV(s)])

Named(id, s) == [_key |-> IntV(id), name |-> En(s)]

\* one or two well-formed records for every source
Sample(src) ==
    CASE src = "types.jsonl" ->
            <<[_key |-> IntV(34), groupID |-> IntV(18), name |-> En("Tritanium"),
               published |-> BoolV(TRUE), portionSize |-> IntV(1)],
              [_key |-> IntV(35), groupID |-> IntV(18), name |-> StrV("Pyerite"),
               published |-> BoolV(FALSE), metaGroupID |-> IntV(2),
               variationParentTypeID |-> IntV(34)]>>
      [] src = "groups.jsonl" ->
            <<[_key |-> IntV(18), categoryID |-> IntV(4), name |-> En("Mineral"),
               anchored |-> BoolV(FALSE), published |-> BoolV(TRUE)]>>
      [] src = "metaGroups.jsonl" ->
            <<[_key |-> IntV(2), name |-> En("Tech II"), iconID |-> IntV(7)]>>
      [] src = "blueprints.jsonl" ->
            <<[_key |-> IntV(681), blueprintTypeID |-> IntV(681),
               activities |-> ItemsV(<<
                  <<"manufacturing",
                    [time |-> IntV(120),
                     materials |-> ListV(<<[typeID |-> IntV(34), quantity |-> IntV(5)],
                                           [typeID |-> IntV(35), quantity |-> IntV(2)]>>),
                     products |-> ListV(<<[typeID |-> IntV(165), quantity |-> IntV(1)]>>)]>>,
                  <<"teleport", [time |-> IntV(9)]>>>>)]>>
      [] src = "npcCharacters.jsonl" -> <<Named(3008416, "Antogase Ochin")>>
      [] src = "mapSolarSystems.jsonl" ->
            <<[_key |-> IntV(30), name |-> En("Jita"), regionID |-> IntV(10)]>>
      [] src = "mapPlanets.jsonl" ->
            <<[_key |-> IntV(40), solarSystemID |-> IntV(30),
               celestialIndex |-> IntV(4), typeID |-> IntV(11)]>>
      [] src = "mapMoons.jsonl" ->
            <<[_key |-> IntV(50), solarSystemID |-> IntV(30), orbitID |-> IntV(40),
               orbitIndex |-> IntV(1), typeID |-> IntV(14)]>>
      [] src = "mapStars.jsonl" -> <<[_key |-> IntV(45), solarSystemID |-> IntV(30)]>>
      [] src = "mapRegions.jsonl" -> <<Named(10, "The Forge")>>
      [] src = "mapConstellations.jsonl" -> <<Named(20, "Kimotoro")>>
      [] src = "npcCorporations.jsonl" -> <<Named(1000, "Caldari Navy")>>
      [] src = "factions.jsonl" -> <<Named(500, "Caldari State")>>
      [] src = "npcStations.jsonl" ->
            <<[_key |-> IntV(60), solarSystemID |-> IntV(30), typeID |-> IntV(52),
               ownerID |-> IntV(1000)]>>

JsonLines(objs) == [k \in 1..Len(objs) |-> Json(objs[k])]

\* the sample file, with an undecodable line after its first record
Corrupted(src) ==
    <<Json(Sample(src)[1]), Garbage>> \o Tail(JsonLines(Sample(src)))

\* the sources an input directory holds: all or none, but for one
PresentSets ==
    {Sources, {}} \cup {Sources \ {s} : s \in Sources} \cup {{s} : s \in Sources}

CorruptChoices == {"types.jsonl", "mapPlanets.jsonl"}

GeneralInputs ==
    {[exists |-> FALSE, files |-> <<>>]} \cup
    {[exists |-> TRUE, files |-> [s \in P |-> JsonLines(Sample(s))]] :
        P \in PresentSets} \cup
    {[exists |-> TRUE,
      files |-> [s \in Sources |->
                    IF s = c THEN Corrupted(s) ELSE JsonLines(Sample(s))]] :
        c \in CorruptChoices}

\* the output directory before the first invocation: absent, or left over
\* from an earlier use with a file under every table's name
NoDir == [exists |-> FALSE, files |-> <<>>]
StaleDir == [exists |-> TRUE, files |-> [f \in OutFiles |-> <<<<"stale">>>>]]

Invocations(names) ==
    {[entry |-> e, given |-> TRUE, names |-> l] :
        e \in {"lib", "cli"}, l \in SeqsUpTo(names, MaxOnly)}

AllTables(e) == [entry |-> e, given |-> FALSE, names |-> <<>>]

\* an input directory holding only the given files
OnlyFiles(files) == [exists |-> TRUE, files |-> files]

InitWith(inputs, outs, invocations) ==
    /\ sde \in inputs
    /\ out \in outs
    /\ argv \in invocations
    /\ pc = "idle"
    /\ todo = <<>>
    /\ i = 1
    /\ err = NoErr
    /\ ran = <<>>
    /\ exit = -1
    /\ msg = ""
    /\ runs = 0
    /\ out0 = out

\* any input directory, any selection over a registered and an unknown name
Init ==
    InitWith(GeneralInputs, {NoDir, StaleDir},
             Invocations({"invTypes", "bogus"}) \cup {AllTables("lib"), AllTables("cli")})

Spec == Init /\ [][Next]_vars

(***************************************************************************)
(* Input families: one source (or one join) varied over bounded sequences  *)
(* of records, everything else absent.                                     *)
(***************************************************************************)
Absent == <<"absent">>

\* a JSON object with the key left out when its value is Absent
Opt(k, v) == IF v = Absent THEN <<>> ELSE k :> v

\* invocations of a family: its tables, alone and followed by an unknown name
FamilyInvocations(tables) ==
    {[entry |-> e, given |-> TRUE, names |-> l] :
        e \in {"lib", "cli"}, l \in {tables, tables \o <<"bogus">>}}

FilesOf(src, Recs, n) ==
    {src :> JsonLines(s) : s \in SeqsUpTo(Recs, n)}

\* ---- types.jsonl ----
TypeRecs ==
    {("_key" :> IntV(k)) @@ Opt("metaGroupID", m) @@ Opt("variationParentTypeID", p) :
        k \in {34, 35}, m \in {Absent, IntV(0), IntV(2)}, p \in {Absent, IntV(34)}}

InitTypes ==
    InitWith({OnlyFiles(f) : f \in FilesOf("types.jsonl", TypeRecs, MaxRecs)},
             {NoDir}, FamilyInvocations(<<"invMetaTypes">>))

SpecTypes == InitTypes /\ [][Next]_vars

\* ---- blueprints.jsonl ----
Mat(t, q) == [typeID |-> IntV(t), quantity |-> IntV(q)]

ActivityData ==
    {Opt("time", t) @@ ml[1] @@ ml[2] :
        t \in {Absent, IntV(120)},
        ml \in {<<<<>>, <<>>>>,
                <<"materials" :> ListV(<<Mat(34, 5), Mat(35, 2)>>),
                  "products" :> ListV(<<Mat(165, 1)>>)>>}}

ActivityLists ==
    {<<>>} \cup
    {<<<<n, d>>>> : n \in {"manufacturing", "teleport"}, d \in ActivityData} \cup
    {<<<<"teleport", [time |-> IntV(9), materials |-> ListV(<<Mat(34, 1)>>)]>>,
       <<"copying", [time |-> IntV(480)]>>,
       <<"invention", [time |-> IntV(60), products |-> ListV(<<Mat(165, 3)>>)]>>>>}

BlueprintRecs ==
    {("_key" :> IntV(681)) @@ Opt("blueprintTypeID", b) @@ ("activities" :> ItemsV(a)) :
        b \in {IntV(681)}, a \in ActivityLists}
    \cup {[_key |-> IntV(682), blueprintTypeID |-> IntV(999),
           activities |-> ItemsV(<<<<"manufacturing", [time |-> IntV(60)]>>>>)],
          [_key |-> IntV(683)]}

BlueprintTables ==
    <<"industryActivity", "industryActivityMaterials", "industryActivityProducts">>

InitBlueprints ==
    InitWith({OnlyFiles(f) : f \in FilesOf("blueprints.jsonl", BlueprintRecs, MaxRecs)},
             {NoDir}, FamilyInvocations(BlueprintTables))

SpecBlueprints == InitBlueprints /\ [][Next]_vars

\* ---- solar systems, planets and moons, as invNames joins them ----
SolarRecs ==
    {[_key |-> IntV(30), name |-> En("Jita")],
     [_key |-> IntV(31), name |-> StrV("Amarr")]}

PlanetRecs ==
    {("_key" :> IntV(40)) @@ ("solarSystemID" :> IntV(30)) @@ Opt("celestialIndex", c) :
        c \in {Absent, IntV(-22), IntV(-1), IntV(0), IntV(4), IntV(20), IntV(21)}}
    \cup
    {("_key" :> IntV(40)) @@ Opt("orbitID", o) @@ ("celestialIndex" :> IntV(4)) :
        o \in {Absent, IntV(30), IntV(31)}}

MoonRecs ==
    {("_key" :> IntV(50)) @@ Opt("solarSystemID", s) @@ Opt("orbitID", o)
        @@ ("orbitIndex" :> IntV(2)) :
        s \in {Absent, IntV(30)}, o \in {Absent, IntV(40)}}
    \cup
    {[_key |-> IntV(50), solarSystemID |-> IntV(30), orbitID |-> IntV(40)],
     [_key |-> IntV(50), solarSystemID |-> IntV(30), orbitID |-> IntV(41),
      orbitIndex |-> IntV(1)],
     [_key |-> IntV(50), solarSystemID |-> IntV(30), orbitID |-> IntV(40),
      orbitIndex |-> IntV(1)]}

NameFiles ==
    {("mapSolarSystems.jsonl" :> JsonLines(s)) @@ ("mapPlanets.jsonl" :> JsonLines(p))
        @@ ("mapMoons.jsonl" :> JsonLines(m)) :
        s \in SeqsUpTo(SolarRecs, MaxJoinRecs),
        p \in SeqsUpTo(PlanetRecs, MaxJoinRecs),
        m \in SeqsUpTo(MoonRecs, MaxJoinRecs)}

InitNames ==
    InitWith({OnlyFiles(f) : f \in NameFiles}, {NoDir}, FamilyInvocations(<<"invNames">>))

SpecNames == InitNames /\ [][Next]_vars

\* ---- solar systems and planets, as invNames resolves a planet's system ----
OrbitSolarRecs == {Named(30, "Jita"), Named(0, "Zero")}

OrbitPlanetRecs ==
    {("_key" :> IntV(40)) @@ Opt("solarSystemID", s) @@ Opt("orbitID", o)
        @@ Opt("celestialIndex", c) :
        s \in {Absent, IntV(0), IntV(30), IntV(31)},
        o \in {Absent, IntV(0), IntV(30), IntV(31)},
        c \in {Absent, IntV(4)}}

OrbitFiles ==
    {("mapSolarSystems.jsonl" :> JsonLines(s)) @@ ("mapPlanets.jsonl" :> JsonLines(p)) :
        s \in SeqsUpTo(OrbitSolarRecs, MaxJoinRecs),
        p \in SeqsUpTo(OrbitPlanetRecs, MaxJoinRecs)}

InitOrbits ==
    InitWith({OnlyFiles(f) : f \in OrbitFiles}, {NoDir}, FamilyInvocations(<<"invNames">>))

SpecOrbits == InitOrbits /\ [][Next]_vars

\* ---- solar systems, planets, moons and stations, as invItems reads them ----
SolarItemRecs ==
    {("_key" :> IntV(30)) @@ Opt("regionID", r) : r \in {Absent, IntV(10)}}

PlanetItemRecs ==
    {[_key |-> IntV(40)],
     [_key |-> IntV(40), solarSystemID |-> IntV(30), typeID |-> IntV(11)]}

MoonItemRecs ==
    {[_key |-> IntV(50)],
     [_key |-> IntV(50), solarSystemID |-> IntV(30), typeID |-> IntV(14)]}

StationItemRecs ==
    {[_key |-> IntV(60)],
     [_key |-> IntV(60), solarSystemID |-> IntV(30), typeID |-> IntV(52)],
     [_key |-> IntV(60), solarSystemID |-> IntV(30), typeID |-> IntV(52),
      ownerID |-> IntV(1000)]}

ItemFiles ==
    {("mapSolarSystems.jsonl" :> JsonLines(s)) @@ ("mapPlanets.jsonl" :> JsonLines(p))
        @@ ("mapMoons.jsonl" :> JsonLines(m)) @@ ("npcStations.jsonl" :> JsonLines(n)) :
        s \in SeqsUpTo(SolarItemRecs, MaxJoinRecs),
        p \in SeqsUpTo(PlanetItemRecs, MaxJoinRecs),
        m \in SeqsUpTo(MoonItemRecs, MaxJoinRecs),
        n \in SeqsUpTo(StationItemRecs, MaxJoinRecs)}

InitItems ==
    InitWith({OnlyFiles(f) : f \in ItemFiles}, {NoDir}, FamilyInvocations(<<"invItems">>))

SpecItems == InitItems /\ [][Next]_vars

(***************************************************************************)
(* Properties.                                                             *)
(***************************************************************************)
\* converter c finished (wrote its file) in the current call
Done(c) == \E k \in 1..Len(todo) : k < i /\ todo[k] = c

\* the invocation is over
Terminal ==
    \/ argv.entry = "lib" /\ pc \in {"returned", "raised"}
    \/ pc = "exited"

\* the `only` list holds a name that is not a registered table
UnknownRequested ==
    argv.given /\ \E k \in 1..Len(argv.names) : argv.names[k] \notin Registered

\* the input files each table is made from
SourcesOf(c) ==
    CASE c \in {"invTypes", "invMetaTypes"} -> {"types.jsonl"}
      [] c = "invGroups" -> {"groups.jsonl"}
      [] c = "invMetaGroups" -> {"metaGroups.jsonl"}
      [] c \in {"industryActivity", "industryActivityMaterials",
                "industryActivityProducts"} -> {"blueprints.jsonl"}
      [] c = "invUniqueNames" -> {"npcCharacters.jsonl"}
      [] c = "invNames" ->
            {"mapSolarSystems.jsonl", "mapPlanets.jsonl", "mapMoons.jsonl",
             "mapStars.jsonl", "mapRegions.jsonl", "mapConstellations.jsonl",
             "npcCorporations.jsonl", "factions.jsonl", "npcCharacters.jsonl"}
      [] c = "invItems" ->
            {"mapSolarSystems.jsonl", "mapPlanets.jsonl", "mapMoons.jsonl",
             "npcStations.jsonl"}
      [] OTHER -> {}

\* C1: a call convert(sde, out, only=L) whose L holds an unknown name fails
\* without any converter having run and without any output file having been
\* created or overwritten, wherever the unknown name stands in L.
C1_UnknownNameRunsNothing ==
    (argv.entry = "lib" /\ UnknownRequested /\ pc \in {"returned", "raised"}) =>
        /\ pc = "raised"
        /\ ran = <<>>
        /\ out.files = out0.files

\* C2: a converter all of whose input sources are missing does not fail: it
\* writes a file holding the header row and nothing else, and the run goes on
\* with the next converter.
C2_MissingSourceHeaderOnly ==
    \A k \in 1..Len(todo) :
        (/\ SourcesOf(todo[k]) # {}
         /\ SourcesOf(todo[k]) \cap DOMAIN sde.files = {}
         /\ Len(ran) >= k) =>
            /\ i > k
            /\ out.files[CONVERTERS(todo[k]).file] = <<CONVERTERS(todo[k]).columns>>

\* C2 witness: a whole run returned over an input directory that lacks
\* types.jsonl but holds other sources; invTypes.csv is the bare header.
C2_Witness ==
    /\ pc = "returned"
    /\ Len(ran) = Len(CONVERTER_NAMES)
    /\ sde.exists
    /\ "types.jsonl" \notin DOMAIN sde.files
    /\ "groups.jsonl" \in DOMAIN sde.files
    /\ out.files["invTypes.csv"] = <<InvTypes_COLUMNS>>
    /\ Len(out.files["invGroups.csv"]) > 1

\* the rows of invFlags.csv under the header, as the embedded table gives them
FlagLines ==
    [k \in 1..Len(FLAGS) |->
        <<ToString(FLAGS[k][1]), FLAGS[k][2], FLAGS[k][3], ToString(FLAGS[k][4])>>]

\* the flag ids (first column) of the rows of invFlags.csv named n
FlagIdsNamed(n) ==
    LET f == out.files["invFlags.csv"]
    IN {f[k][1] : k \in {m \in 2..Len(f) : f[m][2] = n}}

FlagRowsNamed(n) ==
    LET f == out.files["invFlags.csv"]
    IN Cardinality({m \in 2..Len(f) : f[m][2] = n})

\* C7 (as amended): invFlags.csv holds one row per entry of the embedded
\* table, in embedded order and without deduplication; the name
\* "SpecializedAsteroidHold" is in two rows, whose flag ids are 134 and 182.
C7_FlagsVerbatim ==
    Done("invFlags") =>
        /\ out.files["invFlags.csv"] = <<InvFlags_COLUMNS>> \o FlagLines
        /\ FlagRowsNamed("SpecializedAsteroidHold") = 2
        /\ FlagIdsNamed("SpecializedAsteroidHold") = {"134", "182"}

\* C7 as stated: ... whose flag ids are 181 and 182.
C7_FlagsIds181And182 ==
    Done("invFlags") =>
        /\ out.files["invFlags.csv"] = <<InvFlags_COLUMNS>> \o FlagLines
        /\ FlagRowsNamed("SpecializedAsteroidHold") = 2
        /\ FlagIdsNamed("SpecializedAsteroidHold") = {"181", "182"}

\* C7 witness: a run over all tables has returned and invFlags.csv is written
C7_Witness ==
    /\ pc = "returned"
    /\ Done("invFlags")
    /\ Len(out.files["invFlags.csv"]) = Len(FLAGS) + 1
    /\ out.files["invFlags.csv"][2] = <<"0", "None", "None", "0">>

\* C9: a second run against the same input and with the same selection
\* leaves every output file exactly as the first run left it.
C9_Idempotent ==
    (Terminal /\ runs >= 2) => out = out0

\* C9 witness: the second run over all tables has returned; it rewrote the
\* files of the first run, data rows included, and left them as they were.
C9_Witness ==
    /\ pc = "returned"
    /\ runs = 2
    /\ Len(ran) = Len(CONVERTER_NAMES)
    /\ Len(out.files["invTypes.csv"]) > 1
    /\ out = out0

\* a source some selected converter reads holds an undecodable line
MalformedRead ==
    \E k \in 1..Len(ConvertersToRun(argv)) :
        \E s \in SourcesOf(ConvertersToRun(argv)[k]) \cap DOMAIN sde.files :
            \E l \in 1..Len(sde.files[s]) : sde.files[s][l] = Garbage

\* C10 as stated: main exits with 1 and an error message if the input
\* directory does not exist, and with 0 in every other case.
C10_ExitOneOrZero ==
    pc = "exited" =>
        IF ~sde.exists THEN exit = 1 /\ msg = "Error" ELSE exit = 0

\* C10 (as amended): with arguments the parser accepts, main exits with 1
\* and an error message if the input directory does not exist, with 0 when
\* the conversion completes (missing input sources included), and with 1 and
\* a traceback when a malformed record aborts it; arguments the parser
\* rejects (an unknown --only name) exit with 2 whatever the input directory.
C10_ExitCodes ==
    pc = "exited" =>
        IF UnknownRequested \/ (argv.given /\ argv.names = <<>>) THEN exit = 2
        ELSE IF ~sde.exists THEN exit = 1 /\ msg = "Error"
        ELSE IF MalformedRead THEN exit = 1 /\ msg = "Traceback"
        ELSE exit = 0 /\ msg = ""

\* C10 witness: main has exited with 0 over an input directory that exists
\* and lacks a source
C10_Witness ==
    /\ pc = "exited"
    /\ exit = 0
    /\ sde.exists
    /\ DOMAIN sde.files # Sources
    /\ Len(ran) > 0

\* the decoded records of an input source (none when the file is missing)
Recs(src) ==
    IF src \in DOMAIN sde.files
    THEN [k \in 1..Len(sde.files[src]) |-> sde.files[src][k][2]]
    ELSE <<>>

\* converter c was invoked in the current call (it finished or it raised)
Invoked(c) == \E k \in 1..Len(ran) : ran[k] = c

\* the numeral of a celestial index as the specification gives it: I..XX for
\* 1..20, nothing for 0, the decimal number for any other integer
RomanNumeral(n) ==
    IF n \in 1..20
    THEN <<"I", "II", "III", "IV", "V", "VI", "VII", "VIII", "IX", "X", "XI", "XII",
           "XIII", "XIV", "XV", "XVI", "XVII", "XVIII", "XIX", "XX">>[n]
    ELSE IF n = 0 THEN "" ELSE ToString(n)

\* the record of src that a lookup by id finds: the last one with that _key
HasRec(src, id) == \E k \in 1..Len(Recs(src)) : Recs(src)[k]["_key"] = id
RecOf(src, id) == Recs(src)[LastWith(Recs(src), id)]

\* the system name a record's solarSystemID stands for, "Unknown" when the
\* reference is absent or is no solar system of the input
SystemNameFor(obj) ==
    IF "solarSystemID" \in DOMAIN obj /\ HasRec("mapSolarSystems.jsonl", obj["solarSystemID"])
    THEN PyStr(get_localized(RecOf("mapSolarSystems.jsonl", obj["solarSystemID"]), "name"))
    ELSE "Unknown"

CelestialIndexOf(obj) ==
    IF "celestialIndex" \in DOMAIN obj THEN obj["celestialIndex"][2] ELSE 0

\* line of invNames.csv holding the k-th planet / the k-th moon
PlanetLine(k) == 1 + Len(Recs("mapSolarSystems.jsonl")) + k
MoonLine(k) == PlanetLine(Len(Recs("mapPlanets.jsonl"))) + k

\* C3: in invNames, every planet record with celestial index n whose solar
\* system has name S gets the row "S R", R being I..XX for n in 1..20, empty
\* for n = 0 (or an absent index) and the decimal n for any other integer.
C3_PlanetNames ==
    Invoked("invNames") =>
        \A k \in 1..Len(Recs("mapPlanets.jsonl")) :
            LET p == Recs("mapPlanets.jsonl")[k]
            IN ("solarSystemID" \in DOMAIN p
                    /\ HasRec("mapSolarSystems.jsonl", p["solarSystemID"])) =>
                /\ Done("invNames")
                /\ out.files["invNames.csv"][PlanetLine(k)]
                     = <<PyStr(p["_key"]),
                         SystemNameFor(p) \o " " \o RomanNumeral(CelestialIndexOf(p))>>

\* C4: in invNames, every moon record gets one row: "S R - Moon x" when its
\* orbitID is the id of a planet of mapPlanets (R the numeral of that planet's
\* celestial index), else "S - Moon x"; S is the name of the moon's solar
\* system, or "Unknown" when that reference is not a known solar system.
C4_MoonNames ==
    Invoked("invNames") =>
        \A k \in 1..Len(Recs("mapMoons.jsonl")) :
            LET m == Recs("mapMoons.jsonl")[k]
                x == PyStr(m["orbitIndex"])
            IN "orbitIndex" \in DOMAIN m =>
                /\ Done("invNames")
                /\ out.files["invNames.csv"][MoonLine(k)]
                     = <<PyStr(m["_key"]),
                         IF "orbitID" \in DOMAIN m /\ HasRec("mapPlanets.jsonl", m["orbitID"])
                         THEN SystemNameFor(m) \o " "
                              \o RomanNumeral(CelestialIndexOf(RecOf("mapPlanets.jsonl", m["orbitID"])))
                              \o " - Moon " \o x
                         ELSE SystemNameFor(m) \o " - Moon " \o x>>

\* a type record carries a meta-group identifier
CarriesMetaGroup(obj) == "metaGroupID" \in DOMAIN obj

\* a field as the CSV shows it: empty when the record lacks it
FieldOrEmpty(obj, f) == IF f \in DOMAIN obj THEN PyStr(obj[f]) ELSE ""

\* C6: invMetaTypes holds one row per type record that carries a meta-group
\* identifier, in source order, and none for the others; the row is the
\* record's _key, its variationParentTypeID (empty when absent, never the
\* record's own key) and its meta-group id.
C6_MetaTypesFilter ==
    Done("invMetaTypes") =>
        LET carrying == SelectSeq(Recs("types.jsonl"), CarriesMetaGroup)
        IN out.files["invMetaTypes.csv"] =
            <<<<"typeID", "parentTypeID", "metaGroupID">>>> \o
            [k \in 1..Len(carrying) |->
                <<PyStr(carrying[k]["_key"]),
                  FieldOrEmpty(carrying[k], "variationParentTypeID"),
                  PyStr(carrying[k]["metaGroupID"])>>]

\* C6 witness: of two type records the first carries no meta-group and the
\* second carries meta-group 0 and no variation parent; one row is written.
C6_Witness ==
    /\ Done("invMetaTypes")
    /\ Len(Recs("types.jsonl")) = 2
    /\ ~CarriesMetaGroup(Recs("types.jsonl")[1])
    /\ CarriesMetaGroup(Recs("types.jsonl")[2])
    /\ "variationParentTypeID" \notin DOMAIN Recs("types.jsonl")[2]
    /\ out.files["invMetaTypes.csv"][2] = <<"35", "", "0">>
    /\ Len(out.files["invMetaTypes.csv"]) = 2

\* a field as invItems shows it: 0 when the record lacks it
FieldOrZero(obj, f) == IF f \in DOMAIN obj THEN PyStr(obj[f]) ELSE "0"

\* the rows of invItems.csv under the header; absentOwner is what the ownerID
\* column shows for a station record without ownerID
ItemLines(absentOwner) ==
    LET systems == Recs("mapSolarSystems.jsonl")
        celestials == Recs("mapPlanets.jsonl") \o Recs("mapMoons.jsonl")
        stations == Recs("npcStations.jsonl")
    IN [k \in 1..Len(systems) |->
            <<PyStr(systems[k]["_key"]), "5", "1",
              FieldOrZero(systems[k], "regionID"), "0", "-1">>]
       \o [k \in 1..Len(celestials) |->
            <<PyStr(celestials[k]["_key"]), FieldOrZero(celestials[k], "typeID"), "1",
              FieldOrZero(celestials[k], "solarSystemID"), "0", "-1">>]
       \o [k \in 1..Len(stations) |->
            <<PyStr(stations[k]["_key"]), FieldOrZero(stations[k], "typeID"),
              IF "ownerID" \in DOMAIN stations[k]
              THEN PyStr(stations[k]["ownerID"]) ELSE absentOwner,
              FieldOrZero(stations[k], "solarSystemID"), "0", "-1">>]

ItemsHeader == <<"itemID", "typeID", "ownerID", "locationID", "flagID", "quantity">>

\* C8 (as amended): invItems holds one row per solar-system, planet, moon and
\* station record, in that order, all with flagID 0 and quantity -1; systems
\* have typeID 5, ownerID 1, locationID regionID; planets and moons typeID
\* from the record, ownerID 1, locationID solarSystemID; stations typeID and
\* ownerID from the record, locationID solarSystemID; an absent regionID,
\* solarSystemID, typeID or station ownerID is placed in the row as 0.
C8_ItemsRows ==
    Done("invItems") => out.files["invItems.csv"] = <<ItemsHeader>> \o ItemLines("0")

\* C8 as stated: ... a station's ownerID is read directly from the record and
\* is not defaulted to 0 when absent (the field stays empty).
C8_StationOwnerNotDefaulted ==
    Done("invItems") => out.files["invItems.csv"] = <<ItemsHeader>> \o ItemLines("")

\* C8 witness: one record of each of the four sources, the station without
\* ownerID, and invItems.csv written with the four rows
C8_Witness ==
    /\ Done("invItems")
    /\ \A src \in {"mapSolarSystems.jsonl", "mapPlanets.jsonl", "mapMoons.jsonl",
                    "npcStations.jsonl"} : Len(Recs(src)) = 1
    /\ DOMAIN Recs("npcStations.jsonl")[1] = {"_key", "solarSystemID", "typeID"}
    /\ Len(out.files["invItems.csv"]) = 5
    /\ out.files["invItems.csv"][5] = <<"60", "52", "0", "30", "0", "-1">>

\* the activity ids of the static table
KnownActivityIDs ==
    [manufacturing |-> 1, research_time |-> 3, research_material |-> 4,
     copying |-> 5, invention |-> 8, reaction |-> 11]

\* the activities of the input: (record, position among its activities)
Occurrences ==
    UNION {{<<r, j>> : j \in 1..Len(ActivityItems(Recs("blueprints.jsonl")[r]))} :
              r \in 1..Len(Recs("blueprints.jsonl"))}

ActName(o) == ActivityItems(Recs("blueprints.jsonl")[o[1]])[o[2]][1]
ActData(o) == ActivityItems(Recs("blueprints.jsonl")[o[1]])[o[2]][2]
Known(o) == ActName(o) \in DOMAIN KnownActivityIDs
Timed(o) == Known(o) /\ "time" \in DOMAIN ActData(o)

\* the (typeID, activityID) columns the rows of a known activity carry
PairOf(o) ==
    <<FieldOrEmpty(Recs("blueprints.jsonl")[o[1]], "blueprintTypeID"),
      ToString(KnownActivityIDs[ActName(o)])>>

\* the data rows of an output file that carry a (typeID, activityID) pair
RowsWith(file, pair) ==
    {k \in 2..Len(out.files[file]) :
        <<out.files[file][k][1], out.files[file][k][2]>> = pair}

\* the entries of the materials / products lists of a set of activities
Entries(os, field) ==
    UNION {{<<o, e>> : e \in 1..Len(ActivityList(ActData(o), field))} : o \in os}

\* C5: every activity of a blueprint record whose name is in the static id
\* table and which carries a time gives one industryActivity row (with that
\* time), one industryActivityMaterials row per material and one
\* industryActivityProducts row per product, all with typeID the record's
\* blueprintTypeID and the resolved activityID; an activity whose name is not
\* in the table gives no row in any of the three files.
C5_ActivityFanOut ==
    Done("industryActivityProducts") =>
        /\ \A o \in {x \in Occurrences : Timed(x)} :
              LET same == {x \in Occurrences : Known(x) /\ PairOf(x) = PairOf(o)}
              IN (\A x \in same : Timed(x)) =>
                  /\ Cardinality(RowsWith("industryActivity.csv", PairOf(o)))
                        = Cardinality(same)
                  /\ {out.files["industryActivity.csv"][k][3] :
                          k \in RowsWith("industryActivity.csv", PairOf(o))}
                        = {PyStr(ActData(x)["time"]) : x \in same}
                  /\ Cardinality(RowsWith("industryActivityMaterials.csv", PairOf(o)))
                        = Cardinality(Entries(same, "materials"))
                  /\ Cardinality(RowsWith("industryActivityProducts.csv", PairOf(o)))
                        = Cardinality(Entries(same, "products"))
        /\ \A f \in {"industryActivity.csv", "industryActivityMaterials.csv",
                      "industryActivityProducts.csv"} :
              \A k \in 2..Len(out.files[f]) :
                  \E x \in Occurrences :
                      Known(x) /\ PairOf(x) = <<out.files[f][k][1], out.files[f][k][2]>>

\* C5 witness: a blueprint whose "manufacturing" carries time 120, two
\* materials and one product, next to an activity outside the table that
\* carries a time and a material: 1, 2 and 1 data rows are written.
C5_Witness ==
    /\ Done("industryActivityProducts")
    /\ \E o \in Occurrences :
          /\ ActName(o) = "manufacturing"
          /\ Timed(o)
          /\ Len(ActivityList(ActData(o), "materials")) = 2
          /\ Len(ActivityList(ActData(o), "products")) = 1
    /\ \E o \in Occurrences :
          /\ ~Known(o)
          /\ "time" \in DOMAIN ActData(o)
          /\ Len(ActivityList(ActData(o), "materials")) > 0
    /\ out.files["industryActivity.csv"]
          = <<IndustryActivity_COLUMNS, <<"681", "1", "120">>>>
    /\ Len(out.files["industryActivityMaterials.csv"]) = 3
    /\ Len(out.files["industryActivityProducts.csv"]) = 2

\* s is an initial segment of t
IsPrefix(s, t) == Len(s) <= Len(t) /\ \A k \in 1..Len(s) : s[k] = t[k]

\* the order the caller asked for: the `only` list when one was passed, the
\* registry's declaration order when none was
RequestedOrder == IF argv.given THEN argv.names ELSE CONVERTER_NAMES

\* what converter number k of the current call leaves in its output file
WrittenBy(k) ==
    CsvLines(CONVERTERS(todo[k]).columns, CONVERTERS(todo[k]).rows)

\* C11: in every run of convert the converters executed are the caller's
\* `only` list in the given order (the registry's declaration order when no
\* list is given) -- an initial segment of it while the run is under way or
\* after it aborted, the whole of it when convert returns -- and a converter
\* has written its output file before the next one is instantiated.
C11_RunOrder ==
    /\ IsPrefix(ran, RequestedOrder)
    /\ (pc = "returned" => ran = RequestedOrder)
    /\ (pc = "loop" => Len(ran) = i - 1)
    /\ \A k \in 1..Len(ran) :
          k < i => /\ CONVERTERS(todo[k]).file \in DOMAIN out.files
                   /\ out.files[CONVERTERS(todo[k]).file] = WrittenBy(k)

\* some source that table c is made from holds an undecodable line
HasGarbage(c) ==
    \E s \in SourcesOf(c) \cap DOMAIN sde.files :
        \E l \in 1..Len(sde.files[s]) : sde.files[s][l] = Garbage

\* an output file is as it was when the current invocation began
Untouched(f) ==
    IF f \in DOMAIN out0.files
    THEN f \in DOMAIN out.files /\ out.files[f] = out0.files[f]
    ELSE f \notin DOMAIN out.files

\* C12: when a line of an input source fails to decode while converter k of
\* the run order is reading it, the error propagates out of convert, no
\* converter after k runs and k is not run again, converter k's output file
\* is neither created nor modified, and the output files of the converters
\* before k are as those converters wrote them (every other file untouched).
C12_MalformedAborts ==
    \A k \in 1..Len(todo) :
        (todo[k] \in Registered /\ HasGarbage(todo[k]) /\ Len(ran) >= k) =>
            /\ pc \in {"raised", "exited"}
            /\ err = "JSONDecodeError"
            /\ i = k
            /\ Len(ran) = k
            /\ Untouched(CONVERTERS(todo[k]).file)
            /\ \A j \in 1..(k - 1) :
                  /\ CONVERTERS(todo[j]).file \in DOMAIN out.files
                  /\ out.files[CONVERTERS(todo[j]).file] = WrittenBy(j)
            /\ \A f \in OutFiles :
                  (\A j \in 1..(k - 1) : CONVERTERS(todo[j]).file # f) => Untouched(f)

\* C12 witness: a run over all tables against a stale output directory, with
\* an undecodable second line in mapPlanets.jsonl: invNames (converter 11)
\* raised, invNames.csv and invItems.csv are the stale files, and the ten
\* files before them are rewritten
C12_Witness ==
    /\ pc = "raised"
    /\ err = "JSONDecodeError"
    /\ Len(todo) = Len(CONVERTER_NAMES)
    /\ i = 11
    /\ todo[i] = "invNames"
    /\ sde.files["mapPlanets.jsonl"][2] = Garbage
    /\ out0 = StaleDir
    /\ out.files["invNames.csv"] = StaleDir.files["invNames.csv"]
    /\ out.files["invItems.csv"] = StaleDir.files["invItems.csv"]
    /\ Len(out.files["invTypes.csv"]) = 3
    /\ out.files["invUniqueNames.csv"] = WrittenBy(10)

\* the solar id the planet lookup should hold for a planet record: its
\* solarSystemID when it has one; else its orbitID when that is the id of a
\* solar system of the input; else none
ResolvedSolarID(p) ==
    IF "solarSystemID" \in DOMAIN p THEN p["solarSystemID"]
    ELSE IF "orbitID" \in DOMAIN p /\ HasRec("mapSolarSystems.jsonl", p["orbitID"])
    THEN p["orbitID"]
    ELSE None

\* the system name a solar id stands for, "Unknown" when it is none or is no
\* solar system of the input
SystemNameOf(id) ==
    IF HasRec("mapSolarSystems.jsonl", id)
    THEN PyStr(get_localized(RecOf("mapSolarSystems.jsonl", id), "name"))
    ELSE "Unknown"

\* the planet lookup invNames builds from the input
PlanetLookup ==
    Planets(Recs("mapPlanets.jsonl"), SolarSystems(Recs("mapSolarSystems.jsonl")))

\* C13: in invNames a planet with an explicit solarSystemID uses it; a planet
\* lacking one uses its orbitID exactly when that orbitID is a key of the
\* solar-system lookup; otherwise the planet lookup holds no solar id for it
\* and its name uses "Unknown" as system name; the run never fails over a
\* missing lookup key.
C13_PlanetResolution ==
    Invoked("invNames") =>
        /\ Done("invNames")
        /\ \A k \in 1..Len(Recs("mapPlanets.jsonl")) :
              LET p == Recs("mapPlanets.jsonl")[k]
              IN /\ out.files["invNames.csv"][PlanetLine(k)]
                      = <<PyStr(p["_key"]),
                          SystemNameOf(ResolvedSolarID(p)) \o " "
                            \o RomanNumeral(CelestialIndexOf(p))>>
                 /\ PlanetLookup[p["_key"]][1]
                      = ResolvedSolarID(RecOf("mapPlanets.jsonl", p["_key"]))

\* the (typeID, activityID) pairs of the data rows of an output file
PairsIn(file) ==
    {<<out.files[file][k][1], out.files[file][k][2]>> : k \in 2..Len(out.files[file])}

\* C14: an activity whose name is in the static id table and which carries
\* no time gives no industryActivity row, while each of its materials and of
\* its products still gives one row in industryActivityMaterials and in
\* industryActivityProducts: per (typeID, activityID) pair, industryActivity
\* holds as many rows as activities with a time, and the two other files as
\* many as materials and products of all its activities, timed or not.
C14_UntimedActivity ==
    Done("industryActivityProducts") =>
        \A o \in {x \in Occurrences : Known(x) /\ ~Timed(x)} :
            LET same == {x \in Occurrences : Known(x) /\ PairOf(x) = PairOf(o)}
            IN /\ Cardinality(RowsWith("industryActivity.csv", PairOf(o)))
                    = Cardinality({x \in same : Timed(x)})
               /\ Cardinality(RowsWith("industryActivityMaterials.csv", PairOf(o)))
                    = Cardinality(Entries(same, "materials"))
               /\ Cardinality(RowsWith("industryActivityProducts.csv", PairOf(o)))
                    = Cardinality(Entries(same, "products"))

\* C14 witness: the only blueprint's "manufacturing" carries two materials,
\* one product and no time: industryActivity.csv is the bare header, and the
\* pair (681, 1) of the two other files is no pair of industryActivity
C14_Witness ==
    /\ Done("industryActivityProducts")
    /\ Len(Recs("blueprints.jsonl")) = 1
    /\ \E o \in Occurrences :
          /\ ActName(o) = "manufacturing"
          /\ ~Timed(o)
          /\ Len(ActivityList(ActData(o), "materials")) = 2
          /\ Len(ActivityList(ActData(o), "products")) = 1
    /\ out.files["industryActivity.csv"] = <<IndustryActivity_COLUMNS>>
    /\ out.files["industryActivityMaterials.csv"]
          = <<IndustryActivityMaterials_COLUMNS,
              <<"681", "1", "34", "5">>, <<"681", "1", "35", "2">>>>
    /\ out.files["industryActivityProducts.csv"]
          = <<IndustryActivityProducts_COLUMNS, <<"681", "1", "165", "1">>>>
    /\ ~(PairsIn("industryActivityMaterials.csv") \subseteq PairsIn("industryActivity.csv"))
    /\ ~(PairsIn("industryActivityProducts.csv") \subseteq PairsIn("industryActivity.csv"))

\* C15: when the input directory does not exist, convert fails before any
\* converter is instantiated: no converter runs, the output directory is not
\* created and no output file is created or modified, whatever the `only`
\* argument; the error convert raises is the one about the input directory,
\* also when `only` holds unknown names.
C15_MissingInputDir ==
    (~sde.exists /\ runs > 0) =>
        /\ ran = <<>>
        /\ out = out0
        /\ (argv.entry = "lib" \/ ~ArgparseRejects(argv)) =>
              /\ pc \in {"raised", "exited"}
              /\ err = "FileNotFoundError"
              /\ todo = <<>>

\* C15 witness: convert(sde, out, only=["invTypes", "bogus"]) over a missing
\* input directory has raised; the output directory still does not exist
C15_Witness ==
    /\ ~sde.exists
    /\ argv.entry = "lib"
    /\ argv.names = <<"invTypes", "bogus">>
    /\ pc = "raised"
    /\ err = "FileNotFoundError"
    /\ ran = <<>>
    /\ out = NoDir

====
